---- MODULE Spec2Model ----
(***************************************************************************)
(* Model of the di container (package di): the dependency graph with its   *)
(* DFS cycle check, the constructor registry, and lifetime-aware           *)
(* resolution on a family of containers derived by Scoped / WithContext.   *)
(*                                                                         *)
(* reflect.Type values are small integers; instances are indices into     *)
(* heap, one entry per provider call, so "the identical instance" is       *)
(* equality of indices.  Go maps are functions with an explicit DOMAIN.    *)
(***************************************************************************)
EXTENDS Integers, Sequences, FiniteSets, TLC

\* ---------------------------------------------------------------- bounds
NumTypes == 2        \* registrable dependency types
NumGraphTypes == 3   \* dependency types of the graph specification
MaxArgs == 2         \* longest provider parameter list of the graph specification
MaxFreeArgs == 1     \* longest provider parameter list of the free-use specifications
MaxInvokeArgs == 2   \* longest invoker parameter list
MaxContainers == 3   \* containers of the family (root included)
MaxCalls == 2        \* Get / Invoke calls in one behaviour
MaxBuilds == 1       \* Build calls in one behaviour
MaxRebuilds == 2     \* Build calls of the rebuild specification
MaxFamily == 2       \* containers of the rebuild and concurrent specifications
NumProcs == 2        \* goroutines of the concurrent specifications
NumKeys == 1         \* context keys
NumVals == 1         \* context values
NumContextKeys == 2  \* context keys of the context specification
NumContextVals == 2  \* context values of the context specification

\* ------------------------------------------------- constants of the code
Singleton == 1
Scoped == 2
Transient == 3
main == 1
request == 2

\* the zero value of scope (a Container literal that does not set it)
noScope == 0
\* reflect.TypeOf(ContextParams{})
contextParamsType == 0
\* the nil reflect.Type that Register puts into the graph
nilType == -1
\* a nil map (scopedCache of a container that never got one)
nilCache == 0

Types == 1..NumTypes
ArgTypes == Types \cup {contextParamsType}
Lifetimes == {Singleton, Scoped, Transient}
Keys == 1..NumKeys
Vals == 1..NumVals
\* the value a context map yields for a key it does not hold
noVal == 0
\* the key and value of a container that WithContext did not make
noKey == 0

\* ------------------------------------------------------------- helpers
Put(m, k, v) == (k :> v) @@ m

EmptyMap == [x \in {} |-> 0]

Range(s) == {s[i] : i \in 1..Len(s)}

SeqsUpTo(S, n) == UNION {[1..k -> S] : k \in 0..n}

Perms(S) == {p \in [1..Cardinality(S) -> S] : Range(p) = S}

\* ------------------------------------------------------------ graph.go
\* graph.deps[t]; a missing key reads as the nil slice
DepsOf(d, t) == IF t \in DOMAIN d THEN d[t] ELSE <<>>

\* graph.deps[from] = append(graph.deps[from], to)
addDependency(d, from, to) == Put(d, from, Append(DepsOf(d, from), to))

RECURSIVE isCyclic(_, _, _, _)
RECURSIVE isCyclicLoop(_, _, _, _, _)
RECURSIVE isCyclicLoop_NoBacktrack(_, _, _, _, _)

\* isCyclic that tests visited before recStack
isCyclic_VisitedFirst(d, t, visited, recStack) ==
  IF t \in visited
    THEN [cyclic |-> FALSE, dep |-> nilType, visited |-> visited,
          recStack |-> recStack]
    ELSE IF t \in recStack
      THEN [cyclic |-> TRUE, dep |-> t, visited |-> visited, recStack |-> recStack]
      ELSE isCyclicLoop(d, t, 1, visited \cup {t}, recStack \cup {t})

\* visited / recStack are the sets of types whose mark is true
isCyclic(d, t, visited, recStack) ==
  IF t \in recStack
    THEN [cyclic |-> TRUE, dep |-> t, visited |-> visited, recStack |-> recStack]
    ELSE IF t \in visited
      THEN [cyclic |-> FALSE, dep |-> nilType, visited |-> visited,
            recStack |-> recStack]
      ELSE isCyclicLoop(d, t, 1, visited \cup {t}, recStack \cup {t})

\* isCyclicLoop without the backtracking step recStack[t] = false
isCyclicLoop_NoBacktrack(d, t, i, visited, recStack) ==
  IF i > Len(DepsOf(d, t))
    THEN [cyclic |-> FALSE, dep |-> nilType, visited |-> visited,
          recStack |-> recStack]
    ELSE LET r == isCyclic(d, DepsOf(d, t)[i], visited, recStack)
         IN IF r.cyclic
              THEN [cyclic |-> TRUE, dep |-> DepsOf(d, t)[i],
                    visited |-> r.visited, recStack |-> r.recStack]
              ELSE isCyclicLoop_NoBacktrack(d, t, i + 1, r.visited, r.recStack)

\* the for-loop of isCyclic over graph.deps[t], from position i
isCyclicLoop(d, t, i, visited, recStack) ==
  IF i > Len(DepsOf(d, t))
    THEN [cyclic |-> FALSE, dep |-> nilType, visited |-> visited,
          recStack |-> recStack \ {t}]
    ELSE LET r == isCyclic(d, DepsOf(d, t)[i], visited, recStack)
         IN IF r.cyclic
              THEN [cyclic |-> TRUE, dep |-> DepsOf(d, t)[i],
                    visited |-> r.visited, recStack |-> r.recStack]
              ELSE isCyclicLoop(d, t, i + 1, r.visited, r.recStack)

RECURSIVE detectLoop(_, _, _, _, _)

\* the range loop of detectCyclicDependencies; order is the order in which
\* the map iteration yields the keys of graph.deps
detectLoop(d, order, i, visited, recStack) ==
  IF i > Len(order)
    THEN [cyclic |-> FALSE, t |-> nilType, dep |-> nilType]
    ELSE LET r == isCyclic(d, order[i], visited, recStack)
         IN IF r.cyclic
              THEN [cyclic |-> TRUE, t |-> order[i], dep |-> r.dep]
              ELSE detectLoop(d, order, i + 1, r.visited, r.recStack)

detectCyclicDependencies(d, order) == detectLoop(d, order, 1, {}, {})

\* ------------------------------------------------------------ the state
VARIABLES
  deps,             \* graph.deps, shared by the family
  constructors,     \* type -> innerConstructor (nil for a placeholder)
  lifetimes,        \* type -> Lifetime
  singletonsCache,  \* type -> instance
  scopedCaches,     \* the scopedCache maps that exist; containers refer to them
  containers,       \* the Container values of the family, 1 is the root
  heap,             \* every instance a provider call has returned
  log,              \* the Build / Get / Invoke calls made, with their results
  ready,            \* Build has returned nil and nothing was registered since
  registerRet,      \* what the latest Register call returned
  crashed,          \* the process died of a stack overflow or a fatal error
  threads,          \* the goroutines: the call each is in and where it stands
  mutex             \* Container.m: container -> the goroutine that holds it

vars == <<deps, constructors, lifetimes, singletonsCache, scopedCaches,
          containers, heap, log, ready, registerRet, crashed, threads, mutex>>

\* the state of the goroutines and of the mutexes
conc == <<threads, mutex>>

Procs == 1..NumProcs

\* a goroutine that has made no call yet
idle ==
  [pc |-> "idle", con |-> 0,
   provider |-> [isFunc |-> TRUE, out |-> <<>>, in |-> <<>>], lifetime |-> 0,
   i |-> 0, t |-> nilType, val |-> 0, missed |-> FALSE, err |-> "nil"]

family == <<deps, constructors, lifetimes, singletonsCache>>

\* a nil innerConstructor
nilConstructor == [isNil |-> TRUE, argTypes |-> <<>>]

\* the closure getConstructor returns: it captures argTypes
innerConstructor(argTypes) == [isNil |-> FALSE, argTypes |-> argTypes]

\* make(map[string]interface{})
emptyContext == EmptyMap

\* ContextParams.GetValue: the nil interface for a key the map does not hold
GetValue(contextParams, key) ==
  IF key \in DOMAIN contextParams THEN contextParams[key] ELSE noVal

\* an error value of Register: its message and the type it names
RegisterRet(err, t) == [err |-> err, t |-> t]

\* NewContainer that puts the root into request scope with a scopedCache
Init_RootInRequestScope ==
  /\ deps = EmptyMap
  /\ constructors = EmptyMap
  /\ lifetimes = EmptyMap
  /\ singletonsCache = EmptyMap
  /\ scopedCaches = <<EmptyMap>>
  /\ containers = <<[scope |-> request, scopedCache |-> 1,
                     contextParams |-> emptyContext,
                     via |-> "NewContainer", parent |-> 0,
                     key |-> noKey, value |-> noVal]>>
  /\ heap = <<>>
  /\ log = <<>>
  /\ ready = FALSE
  /\ registerRet = RegisterRet("nil", nilType)
  /\ crashed = FALSE
  /\ threads = [p \in Procs |-> idle]
  /\ mutex = EmptyMap

\* NewContainer
Init ==
  /\ deps = EmptyMap
  /\ constructors = EmptyMap
  /\ lifetimes = EmptyMap
  /\ singletonsCache = EmptyMap
  /\ scopedCaches = <<>>
  /\ containers = <<[scope |-> main, scopedCache |-> nilCache,
                     contextParams |-> emptyContext,
                     via |-> "NewContainer", parent |-> 0,
                     key |-> noKey, value |-> noVal]>>
  /\ heap = <<>>
  /\ log = <<>>
  /\ ready = FALSE
  /\ registerRet = RegisterRet("nil", nilType)
  /\ crashed = FALSE
  /\ threads = [p \in Procs |-> idle]
  /\ mutex = EmptyMap

Cons == 1..Len(containers)

\* --------------------------------------------------------------- Register
\* a provider value: whether it is a func, its out types and its in types
Provider(out, in) == [isFunc |-> TRUE, out |-> out, in |-> in]

\* the providers of the lifetime tests: type 1 has no parameters and every
\* other type requires the type before it (example, example2, dependsOnScoped)
Providers ==
  {Provider(<<o>>, IF o = 1 THEN <<>> ELSE <<o - 1>>) : o \in Types}

RECURSIVE addArgs(_, _, _, _)

\* addArgs that stores the placeholder without testing for an entry
addArgs_AlwaysPlaceholder(g, outType, argTypes, i) ==
  IF i > Len(argTypes) THEN g
  ELSE IF argTypes[i] = contextParamsType
    THEN addArgs(g, outType, argTypes, i + 1)
    ELSE addArgs([deps |-> addDependency(g.deps, outType, argTypes[i]),
                  constructors |-> Put(g.constructors, argTypes[i], nilConstructor)],
                 outType, argTypes, i + 1)

\* addArgs that treats ContextParams like any other parameter type
addArgs_NoMarkerSkip(g, outType, argTypes, i) ==
  IF i > Len(argTypes) THEN g
  ELSE addArgs([deps |-> addDependency(g.deps, outType, argTypes[i]),
                constructors |->
                  IF argTypes[i] \in DOMAIN g.constructors
                    THEN g.constructors
                    ELSE Put(g.constructors, argTypes[i], nilConstructor)],
               outType, argTypes, i + 1)

\* the loop of Register over argTypes from position i: the graph edges and
\* the placeholders; g is [deps, constructors]
addArgs(g, outType, argTypes, i) ==
  IF i > Len(argTypes) THEN g
  ELSE IF argTypes[i] = contextParamsType
    THEN addArgs(g, outType, argTypes, i + 1)
    ELSE addArgs([deps |-> addDependency(g.deps, outType, argTypes[i]),
                  constructors |->
                    IF argTypes[i] \in DOMAIN g.constructors
                      THEN g.constructors
                      ELSE Put(g.constructors, argTypes[i], nilConstructor)],
                 outType, argTypes, i + 1)

\* Register without the check that outType is in the graph already
Register_NoDuplicateCheck(c, provider, lifetime) ==
  /\ ~crashed
  /\ c \in Cons
  /\ UNCHANGED conc
  /\ UNCHANGED <<singletonsCache, scopedCaches, containers, heap, log, crashed>>
  /\ IF ~provider.isFunc
       THEN /\ registerRet' = RegisterRet("errNotAFunction", nilType)
            /\ UNCHANGED <<deps, constructors, lifetimes, ready>>
     ELSE IF Len(provider.out) # 1
       THEN /\ registerRet' = RegisterRet("only 1 out parameter is allowed", nilType)
            /\ UNCHANGED <<deps, constructors, lifetimes, ready>>
     ELSE LET outType == provider.out[1]
              g == addArgs([deps |-> addDependency(deps, outType, nilType),
                            constructors |-> constructors],
                           outType, provider.in, 1)
          IN /\ deps' = g.deps
             /\ constructors' = Put(g.constructors, outType,
                                    innerConstructor(provider.in))
             /\ lifetimes' = Put(lifetimes, outType, lifetime)
             /\ ready' = FALSE
             /\ registerRet' = RegisterRet("nil", nilType)

Register(c, provider, lifetime) ==
  /\ ~crashed
  /\ c \in Cons
  /\ UNCHANGED conc
  /\ UNCHANGED <<singletonsCache, scopedCaches, containers, heap, log, crashed>>
  /\ IF ~provider.isFunc
       THEN /\ registerRet' = RegisterRet("errNotAFunction", nilType)
            /\ UNCHANGED <<deps, constructors, lifetimes, ready>>
     ELSE IF Len(provider.out) # 1
       THEN /\ registerRet' = RegisterRet("only 1 out parameter is allowed", nilType)
            /\ UNCHANGED <<deps, constructors, lifetimes, ready>>
     ELSE LET outType == provider.out[1] IN
       IF outType \in DOMAIN deps
         THEN /\ registerRet' = RegisterRet("already registered", outType)
              /\ UNCHANGED <<deps, constructors, lifetimes, ready>>
         ELSE LET g == addArgs([deps |-> addDependency(deps, outType, nilType),
                                constructors |-> constructors],
                               outType, provider.in, 1)
              IN /\ deps' = g.deps
                 /\ constructors' = Put(g.constructors, outType,
                                        innerConstructor(provider.in))
                 /\ lifetimes' = Put(lifetimes, outType, lifetime)
                 /\ ready' = FALSE
                 /\ registerRet' = RegisterRet("nil", nilType)

\* ------------------------------------------------- derivation of containers
\* the map a container's scopedCache field refers to; a nil map reads as empty
ScopedCacheOf(cs, c) ==
  IF containers[c].scopedCache = nilCache THEN EmptyMap
  ELSE cs[containers[c].scopedCache]

\* WithContext that sets the key in the source's own map and hands it on
WithContext_InPlace(c, key, value) ==
  /\ ~crashed
  /\ c \in Cons
  /\ UNCHANGED conc
  /\ containers' = Append(
       [containers EXCEPT ![c].contextParams = Put(@, key, value)],
       [scope |-> noScope,
        scopedCache |-> containers[c].scopedCache,
        contextParams |-> Put(containers[c].contextParams, key, value),
        via |-> "WithContext", parent |-> c, key |-> key, value |-> value])
  /\ UNCHANGED <<family, scopedCaches, heap, log, ready, registerRet, crashed>>

\* WithContext that copies the source's scope as well
WithContext_InheritScope(c, key, value) ==
  /\ ~crashed
  /\ c \in Cons
  /\ UNCHANGED conc
  /\ containers' = Append(containers,
       [scope |-> containers[c].scope,
        scopedCache |-> containers[c].scopedCache,
        contextParams |-> Put(containers[c].contextParams, key, value),
        via |-> "WithContext", parent |-> c, key |-> key, value |-> value])
  /\ UNCHANGED <<family, scopedCaches, heap, log, ready, registerRet, crashed>>

\* WithContext: a copy of the context with key set; graph, constructors,
\* both caches and lifetimes are the source's; scope is not set.  via,
\* parent, key and value record the call that made the container.
WithContext(c, key, value) ==
  /\ ~crashed
  /\ c \in Cons
  /\ UNCHANGED conc
  /\ containers' = Append(containers,
       [scope |-> noScope,
        scopedCache |-> containers[c].scopedCache,
        contextParams |-> Put(containers[c].contextParams, key, value),
        via |-> "WithContext", parent |-> c, key |-> key, value |-> value])
  /\ UNCHANGED <<family, scopedCaches, heap, log, ready, registerRet, crashed>>

\* Scoped that hands the source's scopedCache on when the source has one
ScopedOp_SharedCache(c) ==
  /\ ~crashed
  /\ c \in Cons
  /\ UNCHANGED conc
  /\ scopedCaches' = IF containers[c].scopedCache = nilCache
                       THEN Append(scopedCaches, EmptyMap) ELSE scopedCaches
  /\ containers' = Append(containers,
       [scope |-> request,
        scopedCache |-> IF containers[c].scopedCache = nilCache
                          THEN Len(scopedCaches) + 1
                          ELSE containers[c].scopedCache,
        contextParams |-> containers[c].contextParams,
        via |-> "Scoped", parent |-> c, key |-> noKey, value |-> noVal])
  /\ UNCHANGED <<family, heap, log, ready, registerRet, crashed>>

\* Scoped: a new empty scopedCache, the source's context map, scope request
\* Scoped that makes no scopedCache for the container it returns
ScopedOp_NoCache(c) ==
  /\ ~crashed
  /\ c \in Cons
  /\ UNCHANGED conc
  /\ scopedCaches' = Append(scopedCaches, EmptyMap)
  /\ containers' = Append(containers,
       [scope |-> request,
        scopedCache |-> nilCache,
        contextParams |-> containers[c].contextParams,
        via |-> "Scoped", parent |-> c, key |-> noKey, value |-> noVal])
  /\ UNCHANGED <<family, heap, log, ready, registerRet, crashed>>

ScopedOp(c) ==
  /\ ~crashed
  /\ c \in Cons
  /\ UNCHANGED conc
  /\ scopedCaches' = Append(scopedCaches, EmptyMap)
  /\ containers' = Append(containers,
       [scope |-> request,
        scopedCache |-> Len(scopedCaches) + 1,
        contextParams |-> containers[c].contextParams,
        via |-> "Scoped", parent |-> c, key |-> noKey, value |-> noVal])
  /\ UNCHANGED <<family, heap, log, ready, registerRet, crashed>>

\* ------------------------------------------------------------- resolution
RECURSIVE Construct(_, _, _, _, _, _)
RECURSIVE resolveArgs(_, _, _, _, _, _, _, _)

\* constructors[t](con): the closure of getConstructor run on container c,
\* with singletonsCache sc, scoped caches cs and heap h.  stack holds the
\* types whose closure is running: the closure changes no cache, so entering
\* a type that is on the stack recurses for ever (stack overflow).  A nil
\* closure panics.  The provider call appends the new instance to the heap.
Construct(c, t, sc, cs, h, stack) ==
  IF t \notin DOMAIN constructors \/ constructors[t].isNil
    THEN [st |-> "panic", val |-> 0, heap |-> h]
  ELSE IF t \in stack
    THEN [st |-> "overflow", val |-> 0, heap |-> h]
  ELSE LET r == resolveArgs(c, constructors[t].argTypes, 1, <<>>, sc, cs, h,
                            stack \cup {t})
       IN IF r.st # "ok"
            THEN [st |-> r.st, val |-> 0, heap |-> r.heap]
            ELSE [st |-> "ok", val |-> Len(r.heap) + 1,
                  heap |-> Append(r.heap,
                             [type |-> t, args |-> r.args, con |-> c,
                              call |-> Len(log) + 1])]

\* resolveArgs that does not look into scopedCache
resolveArgs_NoScopedCache(c, argTypes, i, args, sc, cs, h, stack) ==
  IF i > Len(argTypes) THEN [st |-> "ok", args |-> args, heap |-> h]
  ELSE LET a == argTypes[i] IN
    IF a = contextParamsType
      THEN resolveArgs(c, argTypes, i + 1, Append(args, 0), sc, cs, h, stack)
    ELSE IF a \in DOMAIN sc
      THEN resolveArgs(c, argTypes, i + 1, Append(args, sc[a]), sc, cs, h, stack)
    ELSE LET r == Construct(c, a, sc, cs, h, stack)
         IN IF r.st # "ok"
              THEN [st |-> r.st, args |-> args, heap |-> r.heap]
              ELSE resolveArgs(c, argTypes, i + 1, Append(args, r.val),
                               sc, cs, r.heap, stack)

\* the loop of the closure over argTypes from position i; an argument that
\* is the context map is recorded as 0
resolveArgs(c, argTypes, i, args, sc, cs, h, stack) ==
  IF i > Len(argTypes) THEN [st |-> "ok", args |-> args, heap |-> h]
  ELSE LET a == argTypes[i] IN
    IF a = contextParamsType
      THEN resolveArgs(c, argTypes, i + 1, Append(args, 0), sc, cs, h, stack)
    ELSE IF a \in DOMAIN sc
      THEN resolveArgs(c, argTypes, i + 1, Append(args, sc[a]), sc, cs, h, stack)
    ELSE IF a \in DOMAIN ScopedCacheOf(cs, c)
      THEN resolveArgs(c, argTypes, i + 1, Append(args, ScopedCacheOf(cs, c)[a]),
                       sc, cs, h, stack)
    ELSE LET r == Construct(c, a, sc, cs, h, stack)
         IN IF r.st # "ok"
              THEN [st |-> r.st, args |-> args, heap |-> r.heap]
              ELSE resolveArgs(c, argTypes, i + 1, Append(args, r.val),
                               sc, cs, r.heap, stack)

\* the result of getValue
Resolved(st, err, t, val, cs, h) ==
  [st |-> st, err |-> err, t |-> t, val |-> val, caches |-> cs, heap |-> h]

\* constructAndCache that never stores the value
constructAndCache_NoStore(c, argType, cs, h) ==
  LET r == Construct(c, argType, singletonsCache, cs, h, {})
  IN IF r.st # "ok"
       THEN Resolved(r.st, r.st, argType, 0, cs, r.heap)
       ELSE Resolved("ok", "nil", argType, r.val, cs, r.heap)

\* constructAndCache that stores the value whenever the container has a
\* scopedCache
constructAndCache_StoreIfCache(c, argType, cs, h) ==
  LET r == Construct(c, argType, singletonsCache, cs, h, {})
  IN IF r.st # "ok"
       THEN Resolved(r.st, r.st, argType, 0, cs, r.heap)
     ELSE IF containers[c].scopedCache # nilCache
       THEN Resolved("ok", "nil", argType, r.val,
              [cs EXCEPT ![containers[c].scopedCache] = Put(@, argType, r.val)],
              r.heap)
       ELSE Resolved("ok", "nil", argType, r.val, cs, r.heap)

\* the default branch of getValue: call the constructor and, on a container
\* in request scope, store the value into its scopedCache
constructAndCache(c, argType, cs, h) ==
  LET r == Construct(c, argType, singletonsCache, cs, h, {})
  IN IF r.st # "ok"
       THEN Resolved(r.st, r.st, argType, 0, cs, r.heap)
     ELSE IF containers[c].scope = request
       THEN IF containers[c].scopedCache = nilCache
              THEN Resolved("panic", "panic", argType, 0, cs, r.heap)
              ELSE Resolved("ok", "nil", argType, r.val,
                     [cs EXCEPT ![containers[c].scopedCache] = Put(@, argType, r.val)],
                     r.heap)
       ELSE Resolved("ok", "nil", argType, r.val, cs, r.heap)

\* the Scoped case of getValue, also entered by a Singleton that is not cached
scopedCase(c, argType, cs, h) ==
  IF containers[c].scope = request /\ argType \in DOMAIN ScopedCacheOf(cs, c)
    THEN Resolved("ok", "nil", argType, ScopedCacheOf(cs, c)[argType], cs, h)
    ELSE constructAndCache(c, argType, cs, h)

\* getValue that constructs a Singleton it does not find in singletonsCache
\* and stores it nowhere
getValue_SingletonMissNotStored(c, argType, cs, h) ==
  IF argType = contextParamsType
    THEN Resolved("ok", "nil", argType, 0, cs, h)
  ELSE IF argType \notin DOMAIN constructors
    THEN Resolved("err", "was not registered", argType, 0, cs, h)
  ELSE IF argType \notin DOMAIN lifetimes
    THEN Resolved("err", "unknown lifetime", argType, 0, cs, h)
  ELSE IF lifetimes[argType] = Singleton
    THEN IF argType \in DOMAIN singletonsCache
           THEN Resolved("ok", "nil", argType, singletonsCache[argType], cs, h)
           ELSE constructAndCache_NoStore(c, argType, cs, h)
  ELSE IF lifetimes[argType] = Scoped
    THEN scopedCase(c, argType, cs, h)
  ELSE constructAndCache(c, argType, cs, h)

\* getValue that does not look into singletonsCache
getValue_SkipSingletonsCache(c, argType, cs, h) ==
  IF argType = contextParamsType
    THEN Resolved("ok", "nil", argType, 0, cs, h)
  ELSE IF argType \notin DOMAIN constructors
    THEN Resolved("err", "was not registered", argType, 0, cs, h)
  ELSE IF argType \notin DOMAIN lifetimes
    THEN Resolved("err", "unknown lifetime", argType, 0, cs, h)
  ELSE IF lifetimes[argType] \in {Singleton, Scoped}
    THEN scopedCase(c, argType, cs, h)
  ELSE constructAndCache(c, argType, cs, h)

\* getValue that lets a Transient fall into the Scoped case
getValue_TransientAsScoped(c, argType, cs, h) ==
  IF argType = contextParamsType
    THEN Resolved("ok", "nil", argType, 0, cs, h)
  ELSE IF argType \notin DOMAIN constructors
    THEN Resolved("err", "was not registered", argType, 0, cs, h)
  ELSE IF argType \notin DOMAIN lifetimes
    THEN Resolved("err", "unknown lifetime", argType, 0, cs, h)
  ELSE IF lifetimes[argType] = Singleton /\ argType \in DOMAIN singletonsCache
    THEN Resolved("ok", "nil", argType, singletonsCache[argType], cs, h)
  ELSE scopedCase(c, argType, cs, h)

getValue(c, argType, cs, h) ==
  IF argType = contextParamsType
    THEN Resolved("ok", "nil", argType, 0, cs, h)
  ELSE IF argType \notin DOMAIN constructors
    THEN Resolved("err", "was not registered", argType, 0, cs, h)
  ELSE IF argType \notin DOMAIN lifetimes
    THEN Resolved("err", "unknown lifetime", argType, 0, cs, h)
  ELSE IF lifetimes[argType] = Singleton
    THEN IF argType \in DOMAIN singletonsCache
           THEN Resolved("ok", "nil", argType, singletonsCache[argType], cs, h)
           ELSE scopedCase(c, argType, cs, h)
  ELSE IF lifetimes[argType] = Scoped
    THEN scopedCase(c, argType, cs, h)
  ELSE constructAndCache(c, argType, cs, h)

\* ------------------------------------------------------------------ calls
\* one Build / Get / Invoke call: the container, the types asked for, the
\* values handed out, the error, and whether the container was ready
LogEntry(op, c, types, vals, err, t) ==
  [op |-> op, con |-> c, types |-> types, vals |-> vals, err |-> err,
   t |-> t, dep |-> nilType, errs |-> <<>>, ready |-> ready]

NumCalls == Cardinality({i \in 1..Len(log) : log[i].op # "Build"})
NumBuilds == Cardinality({i \in 1..Len(log) : log[i].op = "Build"})

Get(c, t) ==
  /\ ~crashed
  /\ c \in Cons
  /\ UNCHANGED conc
  /\ LET r == getValue(c, t, scopedCaches, heap)
     IN /\ scopedCaches' = r.caches
        /\ heap' = r.heap
        /\ crashed' = (r.st = "overflow")
        /\ log' = Append(log, LogEntry("Get", c, <<t>>,
                           IF r.st = "ok" THEN <<r.val>> ELSE <<>>, r.err, r.t))
  /\ UNCHANGED <<family, containers, ready, registerRet>>

\* an invoker value: whether it is a func, and its in types
Invoker(in) == [isFunc |-> TRUE, in |-> in]

\* the invokers of the lifetime tests: each parameter is of a dependency
\* type (one parameter is what Get resolves)
Invokers == {Invoker(a) : a \in [1..MaxInvokeArgs -> Types]}

RECURSIVE invokeLoop(_, _, _, _, _, _)

\* the loop of Invoke over the invoker's parameters from position i
invokeLoop(c, in, i, vals, cs, h) ==
  IF i > Len(in) THEN [st |-> "ok", err |-> "nil", t |-> nilType,
                       vals |-> vals, caches |-> cs, heap |-> h]
  ELSE LET r == getValue(c, in[i], cs, h)
       IN IF r.st # "ok"
            THEN [st |-> r.st, err |-> r.err, t |-> r.t, vals |-> vals,
                  caches |-> r.caches, heap |-> r.heap]
            ELSE invokeLoop(c, in, i + 1, Append(vals, r.val), r.caches, r.heap)

Invoke(c, invoker) ==
  /\ ~crashed
  /\ c \in Cons
  /\ UNCHANGED conc
  /\ UNCHANGED <<family, containers, ready, registerRet>>
  /\ IF ~invoker.isFunc
       THEN /\ log' = Append(log, LogEntry("Invoke", c, <<>>, <<>>,
                                           "errNotAFunction", nilType))
            /\ UNCHANGED <<scopedCaches, heap, crashed>>
       ELSE LET r == invokeLoop(c, invoker.in, 1, <<>>, scopedCaches, heap)
            IN /\ scopedCaches' = r.caches
               /\ heap' = r.heap
               /\ crashed' = (r.st = "overflow")
               /\ log' = Append(log, LogEntry("Invoke", c, invoker.in, r.vals,
                                              r.err, r.t))

RECURSIVE buildLoop(_, _, _, _, _, _)

\* buildLoop that leaves a Singleton alone that singletonsCache holds
buildLoop_KeepCached(c, order, i, errs, sc, h) ==
  IF i > Len(order) THEN [st |-> "ok", errs |-> errs, sc |-> sc, heap |-> h]
  ELSE LET t == order[i]
           errs1 == IF constructors[t].isNil THEN Append(errs, t) ELSE errs
       IN IF t \in DOMAIN lifetimes /\ lifetimes[t] = Singleton
             /\ t \notin DOMAIN sc
            THEN LET r == Construct(c, t, sc, scopedCaches, h, {})
                 IN IF r.st # "ok"
                      THEN [st |-> r.st, errs |-> errs1, sc |-> sc, heap |-> r.heap]
                      ELSE buildLoop(c, order, i + 1, errs1, Put(sc, t, r.val),
                                     r.heap)
            ELSE buildLoop(c, order, i + 1, errs1, sc, h)

\* buildLoop that constructs and stores every type that has a lifetime
buildLoop_CacheAll(c, order, i, errs, sc, h) ==
  IF i > Len(order) THEN [st |-> "ok", errs |-> errs, sc |-> sc, heap |-> h]
  ELSE LET t == order[i]
           errs1 == IF constructors[t].isNil THEN Append(errs, t) ELSE errs
       IN IF t \in DOMAIN lifetimes
            THEN LET r == Construct(c, t, sc, scopedCaches, h, {})
                 IN IF r.st # "ok"
                      THEN [st |-> r.st, errs |-> errs1, sc |-> sc, heap |-> r.heap]
                      ELSE buildLoop(c, order, i + 1, errs1, Put(sc, t, r.val),
                                     r.heap)
            ELSE buildLoop(c, order, i + 1, errs1, sc, h)

\* buildLoop that stops at the first nil constructor
buildLoop_FailFast(c, order, i, errs, sc, h) ==
  IF i > Len(order) THEN [st |-> "ok", errs |-> errs, sc |-> sc, heap |-> h]
  ELSE LET t == order[i]
       IN IF constructors[t].isNil
            THEN [st |-> "ok", errs |-> Append(errs, t), sc |-> sc, heap |-> h]
          ELSE IF t \in DOMAIN lifetimes /\ lifetimes[t] = Singleton
            THEN LET r == Construct(c, t, sc, scopedCaches, h, {})
                 IN IF r.st # "ok"
                      THEN [st |-> r.st, errs |-> errs, sc |-> sc, heap |-> r.heap]
                      ELSE buildLoop(c, order, i + 1, errs, Put(sc, t, r.val),
                                     r.heap)
            ELSE buildLoop(c, order, i + 1, errs, sc, h)

\* the range loop of Build over c.constructors from position i; order is the
\* order in which the map iteration yields its keys
buildLoop(c, order, i, errs, sc, h) ==
  IF i > Len(order) THEN [st |-> "ok", errs |-> errs, sc |-> sc, heap |-> h]
  ELSE LET t == order[i]
           errs1 == IF constructors[t].isNil THEN Append(errs, t) ELSE errs
       IN IF t \in DOMAIN lifetimes /\ lifetimes[t] = Singleton
            THEN LET r == Construct(c, t, sc, scopedCaches, h, {})
                 IN IF r.st # "ok"
                      THEN [st |-> r.st, errs |-> errs1, sc |-> sc, heap |-> r.heap]
                      ELSE buildLoop(c, order, i + 1, errs1, Put(sc, t, r.val),
                                     r.heap)
            ELSE buildLoop(c, order, i + 1, errs1, sc, h)

\* Build that looks for cycles after the loop over the registry
Build_CycleCheckLast(c, graphOrder, registryOrder) ==
  /\ ~crashed
  /\ c \in Cons
  /\ UNCHANGED conc
  /\ graphOrder \in Perms(DOMAIN deps)
  /\ registryOrder \in Perms(DOMAIN constructors)
  /\ UNCHANGED <<deps, constructors, lifetimes, scopedCaches, containers,
                 registerRet>>
  /\ LET cyc == detectCyclicDependencies(deps, graphOrder)
         r == buildLoop(c, registryOrder, 1, <<>>, singletonsCache, heap)
         err == IF r.st # "ok" THEN r.st
                ELSE IF cyc.cyclic THEN "cyclic dependency"
                ELSE IF Len(r.errs) # 0 THEN "was not registered"
                ELSE "nil"
     IN /\ singletonsCache' = r.sc
        /\ heap' = r.heap
        /\ crashed' = (r.st = "overflow")
        /\ ready' = (err = "nil")
        /\ log' = Append(log,
                     [LogEntry("Build", c, <<>>, <<>>, err,
                               IF err = "cyclic dependency" THEN cyc.t ELSE nilType)
                        EXCEPT !.errs = r.errs,
                               !.dep = IF err = "cyclic dependency" THEN cyc.dep
                                       ELSE nilType])

Build(c, graphOrder, registryOrder) ==
  /\ ~crashed
  /\ c \in Cons
  /\ UNCHANGED conc
  /\ graphOrder \in Perms(DOMAIN deps)
  /\ registryOrder \in Perms(DOMAIN constructors)
  /\ UNCHANGED <<deps, constructors, lifetimes, scopedCaches, containers,
                 registerRet>>
  /\ LET cyc == detectCyclicDependencies(deps, graphOrder)
     IN IF cyc.cyclic
          THEN /\ log' = Append(log,
                            [LogEntry("Build", c, <<>>, <<>>, "cyclic dependency",
                                      cyc.t) EXCEPT !.dep = cyc.dep])
               /\ ready' = FALSE
               /\ UNCHANGED <<singletonsCache, heap, crashed>>
          ELSE LET r == buildLoop(c, registryOrder, 1, <<>>, singletonsCache, heap)
                   err == IF r.st # "ok" THEN r.st
                          ELSE IF Len(r.errs) # 0 THEN "was not registered"
                          ELSE "nil"
               IN /\ singletonsCache' = r.sc
                  /\ heap' = r.heap
                  /\ crashed' = (r.st = "overflow")
                  /\ ready' = (err = "nil")
                  /\ log' = Append(log,
                               [LogEntry("Build", c, <<>>, <<>>, err, nilType)
                                  EXCEPT !.errs = r.errs])

\* ---------------------------------------------------------- specification
\* The use the README describes: register the providers, Build the
\* container, then derive containers and resolve.  Build is called on the
\* root, Get and Invoke are issued while the family is ready, and a provider
\* is registered for a type that has none yet.
Next ==
  \/ \E c \in Cons, p \in Providers, l \in Lifetimes :
       p.out[1] \notin DOMAIN deps /\ Register(c, p, l)
  \/ \E go \in Perms(DOMAIN deps), ro \in Perms(DOMAIN constructors) :
       NumBuilds < MaxBuilds /\ Build(1, go, ro)
  \/ \E c \in Cons : Len(containers) < MaxContainers /\ ScopedOp(c)
  \/ \E c \in Cons, k \in Keys, v \in Vals :
       Len(containers) < MaxContainers /\ WithContext(c, k, v)
  \/ \E c \in Cons, t \in Types : ready /\ NumCalls < MaxCalls /\ Get(c, t)
  \/ \E c \in Cons, f \in Invokers :
       ready /\ NumCalls < MaxCalls /\ Invoke(c, f)

Spec == Init /\ [][Next]_vars

\* Registration and Build alone, over every provider signature of up to
\* MaxArgs distinct parameters among NumGraphTypes types: every shape of graph
GraphTypes == 1..NumGraphTypes

\* the parameter lists of a provider: no type twice
ArgLists(S, n) == {a \in SeqsUpTo(S, n) : Cardinality(Range(a)) = Len(a)}

GraphProviders ==
  {Provider(<<o>>, a) : o \in GraphTypes, a \in ArgLists(GraphTypes, MaxArgs)}

NextGraph ==
  \/ \E p \in GraphProviders, l \in Lifetimes :
       p.out[1] \notin DOMAIN deps /\ Register(1, p, l)
  \/ \E go \in Perms(DOMAIN deps), ro \in Perms(DOMAIN constructors) :
       NumBuilds < MaxBuilds /\ Build(1, go, ro)

SpecGraph == Init /\ [][NextGraph]_vars

\* the providers of any signature of up to MaxFreeArgs distinct parameters
\* over the dependency types: a type may require itself, the other type, or
\* a type that has no provider
FreeProviders ==
  {Provider(<<o>>, a) : o \in Types, a \in ArgLists(Types, MaxFreeArgs)}

\* Any use of the root container: providers are registered, Build, Get and
\* Invoke are called at any time and in any order, whatever Build returned
NextFree ==
  \/ \E p \in FreeProviders, l \in Lifetimes :
       p.out[1] \notin DOMAIN deps /\ Register(1, p, l)
  \/ \E go \in Perms(DOMAIN deps), ro \in Perms(DOMAIN constructors) :
       NumBuilds < MaxBuilds /\ Build(1, go, ro)
  \/ \E t \in Types : NumCalls < MaxCalls /\ Get(1, t)
  \/ \E f \in Invokers : NumCalls < MaxCalls /\ Invoke(1, f)

SpecFree == Init /\ [][NextFree]_vars

\* Registration at any time, also of a provider for a type that has one
NextRegister ==
  \/ \E p \in FreeProviders, l \in Lifetimes : Register(1, p, l)
  \/ \E go \in Perms(DOMAIN deps), ro \in Perms(DOMAIN constructors) :
       NumBuilds < MaxBuilds /\ Build(1, go, ro)
  \/ \E t \in Types : NumCalls < MaxCalls /\ Get(1, t)

SpecRegister == Init /\ [][NextRegister]_vars

\* The use the README describes for the container context: the providers
\* take ContextParams (and, but for type 1, the type before theirs), and
\* containers are derived with several keys and values
ContextKeys == 1..NumContextKeys
ContextVals == 1..NumContextVals

ContextProviders ==
  {Provider(<<o>>, IF o = 1 THEN <<contextParamsType>>
                            ELSE <<contextParamsType, o - 1>>) : o \in Types}

NextContext ==
  \/ \E p \in ContextProviders, l \in Lifetimes :
       p.out[1] \notin DOMAIN deps /\ Register(1, p, l)
  \/ \E go \in Perms(DOMAIN deps), ro \in Perms(DOMAIN constructors) :
       NumBuilds < MaxBuilds /\ Build(1, go, ro)
  \/ \E c \in Cons : Len(containers) < MaxContainers /\ ScopedOp(c)
  \/ \E c \in Cons, k \in ContextKeys, v \in ContextVals :
       Len(containers) < MaxContainers /\ WithContext(c, k, v)
  \/ \E c \in Cons, t \in Types : ready /\ NumCalls < MaxCalls /\ Get(c, t)

SpecContext == Init /\ [][NextContext]_vars

\* Resolution at any time on a family of containers: Get is called before
\* Build, after it, and after a registration that followed it
NextEarly ==
  \/ \E p \in Providers, l \in Lifetimes :
       p.out[1] \notin DOMAIN deps /\ Register(1, p, l)
  \/ \E go \in Perms(DOMAIN deps), ro \in Perms(DOMAIN constructors) :
       NumBuilds < MaxBuilds /\ Build(1, go, ro)
  \/ \E c \in Cons : Len(containers) < MaxContainers /\ ScopedOp(c)
  \/ \E c \in Cons, k \in Keys, v \in Vals :
       Len(containers) < MaxContainers /\ WithContext(c, k, v)
  \/ \E c \in Cons, t \in Types : NumCalls < MaxCalls /\ Get(c, t)

SpecEarly == Init /\ [][NextEarly]_vars

\* A family whose members register and build: providers are registered on
\* derived containers, Build is called on any container and more than once,
\* and Get is called on any container at any time
NextRebuild ==
  \/ \E c \in Cons \ {1}, p \in Providers, l \in Lifetimes :
       p.out[1] \notin DOMAIN deps /\ Register(c, p, l)
  \/ \E c \in Cons, go \in Perms(DOMAIN deps), ro \in Perms(DOMAIN constructors) :
       NumBuilds < MaxRebuilds /\ Build(c, go, ro)
  \/ \E c \in Cons : Len(containers) < MaxFamily /\ ScopedOp(c)
  \/ \E c \in Cons, k \in Keys, v \in Vals :
       Len(containers) < MaxFamily /\ WithContext(c, k, v)
  \/ \E c \in Cons, t \in Types : NumCalls < MaxCalls /\ Get(c, t)

SpecRebuild == Init /\ [][NextRebuild]_vars

\* the values Register is called with when nothing restricts the provider:
\* a value that is no func, a func with two out-parameters, and the funcs
\* that return a dependency type or ContextParams and take up to MaxArgs
\* distinct parameters among the dependency types and ContextParams
AnyProviders ==
  {[isFunc |-> FALSE, out |-> <<>>, in |-> <<>>], Provider(<<1, 2>>, <<>>)}
  \cup {Provider(<<o>>, a) : o \in ArgTypes, a \in ArgLists(ArgTypes, MaxArgs)}

\* Register with any value, any number of times
NextAnyProvider == \E p \in AnyProviders, l \in Lifetimes : Register(1, p, l)

SpecAnyProvider == Init /\ [][NextAnyProvider]_vars

\* ------------------------------------------------------------- goroutines
\* Calls made by several goroutines.  A call is a sequence of steps, one for
\* each access to a map the family shares and one for the mutex.

AllIdle == \A p \in Procs : threads[p].pc = "idle"

\* goroutine p moves to pc with the fields of its record set as in upd
Goto(p, upd) == threads' = [threads EXCEPT ![p] = upd]

\* Register, up to c.m.Lock(): a provider that is no func is rejected
\* before the lock is taken
RegisterCall(p, c, provider, lifetime) ==
  /\ ~crashed
  /\ threads[p].pc = "idle"
  /\ c \in Cons
  /\ Goto(p, [idle EXCEPT
               !.pc = IF provider.isFunc THEN "lock" ELSE "done",
               !.con = c, !.provider = provider, !.lifetime = lifetime,
               !.err = IF provider.isFunc THEN "nil" ELSE "errNotAFunction"])
  /\ UNCHANGED <<family, scopedCaches, containers, heap, log, ready,
                 registerRet, crashed, mutex>>

\* c.m.Lock() that does not wait for the mutex
RegisterLock_NoWait(p) ==
  /\ ~crashed
  /\ threads[p].pc = "lock"
  /\ mutex' = Put(mutex, threads[p].con, p)
  /\ Goto(p, [threads[p] EXCEPT !.pc = "check"])
  /\ UNCHANGED <<family, scopedCaches, containers, heap, log, ready,
                 registerRet, crashed>>

\* c.m.Lock(): waits until no goroutine holds the mutex of this container
RegisterLock(p) ==
  /\ ~crashed
  /\ threads[p].pc = "lock"
  /\ threads[p].con \notin DOMAIN mutex
  /\ mutex' = Put(mutex, threads[p].con, p)
  /\ Goto(p, [threads[p] EXCEPT !.pc = "check"])
  /\ UNCHANGED <<family, scopedCaches, containers, heap, log, ready,
                 registerRet, crashed>>

\* the number of out-parameters and the lookup of outType in graph.deps
RegisterCheck(p) ==
  /\ ~crashed
  /\ threads[p].pc = "check"
  /\ Goto(p, IF Len(threads[p].provider.out) # 1
               THEN [threads[p] EXCEPT !.pc = "unlock",
                       !.err = "only 1 out parameter is allowed"]
             ELSE IF threads[p].provider.out[1] \in DOMAIN deps
               THEN [threads[p] EXCEPT !.pc = "unlock",
                       !.err = "already registered",
                       !.t = threads[p].provider.out[1]]
               ELSE [threads[p] EXCEPT !.pc = "addNil"])
  /\ UNCHANGED <<family, scopedCaches, containers, heap, log, ready,
                 registerRet, crashed, mutex>>

\* c.graph.addDependency(outType, nil)
RegisterAddNil(p) ==
  /\ ~crashed
  /\ threads[p].pc = "addNil"
  /\ deps' = addDependency(deps, threads[p].provider.out[1], nilType)
  /\ ready' = FALSE
  /\ Goto(p, [threads[p] EXCEPT !.pc = "args", !.i = 1])
  /\ UNCHANGED <<constructors, lifetimes, singletonsCache, scopedCaches,
                 containers, heap, log, registerRet, crashed, mutex>>

\* one round of the loop over argTypes: the edge and the placeholder
RegisterArg(p) ==
  /\ ~crashed
  /\ threads[p].pc = "args"
  /\ IF threads[p].i > Len(threads[p].provider.in)
       THEN /\ Goto(p, [threads[p] EXCEPT !.pc = "lifetime"])
            /\ UNCHANGED <<deps, constructors>>
       ELSE LET g == addArgs([deps |-> deps, constructors |-> constructors],
                             threads[p].provider.out[1],
                             <<threads[p].provider.in[threads[p].i]>>, 1)
            IN /\ deps' = g.deps
               /\ constructors' = g.constructors
               /\ Goto(p, [threads[p] EXCEPT !.i = @ + 1])
  /\ UNCHANGED <<lifetimes, singletonsCache, scopedCaches, containers, heap,
                 log, ready, registerRet, crashed, mutex>>

\* c.lifetimes[outType] = lifetime
RegisterLifetime(p) ==
  /\ ~crashed
  /\ threads[p].pc = "lifetime"
  /\ lifetimes' = Put(lifetimes, threads[p].provider.out[1], threads[p].lifetime)
  /\ Goto(p, [threads[p] EXCEPT !.pc = "constructor"])
  /\ UNCHANGED <<deps, constructors, singletonsCache, scopedCaches, containers,
                 heap, log, ready, registerRet, crashed, mutex>>

\* c.constructors[outType] = innerConstructor
RegisterConstructor(p) ==
  /\ ~crashed
  /\ threads[p].pc = "constructor"
  /\ constructors' = Put(constructors, threads[p].provider.out[1],
                         innerConstructor(threads[p].provider.in))
  /\ Goto(p, [threads[p] EXCEPT !.pc = "unlock"])
  /\ UNCHANGED <<deps, lifetimes, singletonsCache, scopedCaches, containers,
                 heap, log, ready, registerRet, crashed, mutex>>

\* the deferred c.m.Unlock() and the return
RegisterUnlock(p) ==
  /\ ~crashed
  /\ threads[p].pc = "unlock"
  /\ mutex' = [x \in DOMAIN mutex \ {threads[p].con} |-> mutex[x]]
  /\ Goto(p, [threads[p] EXCEPT !.pc = "done"])
  /\ UNCHANGED <<family, scopedCaches, containers, heap, log, ready,
                 registerRet, crashed>>

\* Get, up to the call of getValue
GetCall(p, c, t) ==
  /\ ~crashed
  /\ threads[p].pc = "idle"
  /\ c \in Cons
  /\ Goto(p, [idle EXCEPT !.pc = "lookup", !.con = c, !.t = t])
  /\ UNCHANGED <<family, scopedCaches, containers, heap, log, ready,
                 registerRet, crashed, mutex>>

\* getValue down to the default branch: the lookups in constructors,
\* lifetimes, singletonsCache and scopedCache
GetLookup(p) ==
  /\ ~crashed
  /\ threads[p].pc = "lookup"
  /\ LET c == threads[p].con
         t == threads[p].t
     IN Goto(p,
          IF t = contextParamsType
            THEN [threads[p] EXCEPT !.pc = "done"]
          ELSE IF t \notin DOMAIN constructors
            THEN [threads[p] EXCEPT !.pc = "done", !.err = "was not registered"]
          ELSE IF t \notin DOMAIN lifetimes
            THEN [threads[p] EXCEPT !.pc = "done", !.err = "unknown lifetime"]
          ELSE IF lifetimes[t] = Singleton /\ t \in DOMAIN singletonsCache
            THEN [threads[p] EXCEPT !.pc = "done", !.val = singletonsCache[t]]
          ELSE IF /\ lifetimes[t] \in {Singleton, Scoped}
                  /\ containers[c].scope = request
                  /\ t \in DOMAIN ScopedCacheOf(scopedCaches, c)
            THEN [threads[p] EXCEPT !.pc = "done",
                    !.val = ScopedCacheOf(scopedCaches, c)[t]]
            ELSE [threads[p] EXCEPT !.pc = "construct", !.missed = TRUE])
  /\ UNCHANGED <<family, scopedCaches, containers, heap, log, ready,
                 registerRet, crashed, mutex>>

\* the default branch that looks into scopedCache once more before it
\* calls the constructor
GetConstruct_DoubleChecked(p) ==
  /\ ~crashed
  /\ threads[p].pc = "construct"
  /\ LET c == threads[p].con
         t == threads[p].t
         r == Construct(c, t, singletonsCache, scopedCaches, heap, {})
     IN IF containers[c].scope = request
           /\ t \in DOMAIN ScopedCacheOf(scopedCaches, c)
          THEN /\ Goto(p, [threads[p] EXCEPT !.pc = "done",
                             !.val = ScopedCacheOf(scopedCaches, c)[t]])
               /\ UNCHANGED <<heap, crashed>>
          ELSE /\ heap' = r.heap
               /\ crashed' = (r.st = "overflow")
               /\ Goto(p, IF r.st # "ok"
                            THEN [threads[p] EXCEPT !.pc = "done", !.err = r.st]
                            ELSE [threads[p] EXCEPT !.val = r.val,
                                    !.pc = IF containers[c].scope = request
                                             THEN "store" ELSE "done"])
  /\ UNCHANGED <<family, scopedCaches, containers, log, ready, registerRet,
                 mutex>>

\* the default branch of getValue: val := constructor(c)
GetConstruct(p) ==
  /\ ~crashed
  /\ threads[p].pc = "construct"
  /\ LET c == threads[p].con
         r == Construct(c, threads[p].t, singletonsCache, scopedCaches, heap, {})
     IN /\ heap' = r.heap
        /\ crashed' = (r.st = "overflow")
        /\ Goto(p, IF r.st # "ok"
                     THEN [threads[p] EXCEPT !.pc = "done", !.err = r.st]
                     ELSE [threads[p] EXCEPT !.val = r.val,
                             !.pc = IF containers[c].scope = request
                                      THEN "store" ELSE "done"])
  /\ UNCHANGED <<family, scopedCaches, containers, log, ready, registerRet,
                 mutex>>

\* c.scopedCache[argType] = val and the return
GetStore(p) ==
  /\ ~crashed
  /\ threads[p].pc = "store"
  /\ IF containers[threads[p].con].scopedCache = nilCache
       THEN /\ Goto(p, [threads[p] EXCEPT !.pc = "done", !.err = "panic"])
            /\ UNCHANGED scopedCaches
       ELSE /\ scopedCaches' =
                 [scopedCaches EXCEPT ![containers[threads[p].con].scopedCache] =
                    Put(@, threads[p].t, threads[p].val)]
            /\ Goto(p, [threads[p] EXCEPT !.pc = "done"])
  /\ UNCHANGED <<family, containers, heap, log, ready, registerRet, crashed,
                 mutex>>

\* the maps of the family: a map of scopedCaches goes by its position
depsMap == -1
constructorsMap == -2
lifetimesMap == -3
singletonsCacheMap == -4

\* the maps the next step of goroutine p reads
Reads(p) ==
  LET th == threads[p]
      own == IF th.con \in Cons /\ containers[th.con].scopedCache # nilCache
               THEN {containers[th.con].scopedCache} ELSE {}
  IN IF th.pc = "check" THEN {depsMap}
     ELSE IF th.pc = "args" /\ th.i <= Len(th.provider.in)
             /\ th.provider.in[th.i] # contextParamsType
       THEN {constructorsMap}
     ELSE IF th.pc = "lookup"
       THEN {constructorsMap, lifetimesMap, singletonsCacheMap}
            \cup (IF containers[th.con].scope = request THEN own ELSE {})
     ELSE IF th.pc = "construct"
       THEN {constructorsMap, singletonsCacheMap} \cup own
     ELSE {}

\* the maps the next step of goroutine p writes
Writes(p) ==
  LET th == threads[p]
  IN IF th.pc = "addNil" THEN {depsMap}
     ELSE IF th.pc = "args" /\ th.i <= Len(th.provider.in)
             /\ th.provider.in[th.i] # contextParamsType
       THEN {depsMap, constructorsMap}
     ELSE IF th.pc = "lifetime" THEN {lifetimesMap}
     ELSE IF th.pc = "constructor" THEN {constructorsMap}
     ELSE IF th.pc = "store" /\ containers[th.con].scopedCache # nilCache
       THEN {containers[th.con].scopedCache}
     ELSE {}

\* the next step of p and the next step of another goroutine access one
\* map, and one of the two writes it: a data race
Races(p) ==
  \E q \in Procs \ {p} :
    \/ Writes(p) \cap (Reads(q) \cup Writes(q)) # {}
    \/ Reads(p) \cap Writes(q) # {}

\* the two accesses of a data race overlap and the runtime ends the process
\* (fatal error: concurrent map writes / concurrent map read and map write)
RaceFatal(p) ==
  /\ ~crashed
  /\ Races(p)
  /\ crashed' = TRUE
  /\ UNCHANGED <<family, scopedCaches, containers, heap, log, ready,
                 registerRet, conc>>

\* the values the goroutines call Register with
ConcurrentProviders ==
  FreeProviders
  \cup {[isFunc |-> FALSE, out |-> <<>>, in |-> <<>>], Provider(<<1, 2>>, <<>>)}

\* Goroutines that call Register on the containers of one family, on the
\* same container or on different ones
NextConcurrentRegister ==
  \/ \E c \in Cons : AllIdle /\ Len(containers) < MaxFamily /\ ScopedOp(c)
  \/ \E c \in Cons, k \in Keys, v \in Vals :
       AllIdle /\ Len(containers) < MaxFamily /\ WithContext(c, k, v)
  \/ \E p \in Procs, c \in Cons, f \in ConcurrentProviders, l \in Lifetimes :
       RegisterCall(p, c, f, l)
  \/ \E p \in Procs : RegisterLock(p)
  \/ \E p \in Procs : RegisterCheck(p)
  \/ \E p \in Procs : RegisterAddNil(p)
  \/ \E p \in Procs : RegisterArg(p)
  \/ \E p \in Procs : RegisterLifetime(p)
  \/ \E p \in Procs : RegisterConstructor(p)
  \/ \E p \in Procs : RegisterUnlock(p)
  \/ \E p \in Procs : RaceFatal(p)

SpecConcurrentRegister == Init /\ [][NextConcurrentRegister]_vars

\* Goroutines that call Get on the containers of a family that has been
\* set up and built by one goroutine
NextConcurrentGet ==
  \/ \E f \in Providers, l \in Lifetimes :
       AllIdle /\ f.out[1] \notin DOMAIN deps /\ Register(1, f, l)
  \/ \E go \in Perms(DOMAIN deps), ro \in Perms(DOMAIN constructors) :
       AllIdle /\ NumBuilds < MaxBuilds /\ Build(1, go, ro)
  \/ \E c \in Cons : AllIdle /\ Len(containers) < MaxFamily /\ ScopedOp(c)
  \/ \E p \in Procs, c \in Cons, t \in Types : ready /\ GetCall(p, c, t)
  \/ \E p \in Procs : GetLookup(p)
  \/ \E p \in Procs : GetConstruct(p)
  \/ \E p \in Procs : GetStore(p)
  \/ \E p \in Procs : RaceFatal(p)

SpecConcurrentGet == Init /\ [][NextConcurrentGet]_vars

\* ------------------------------------------------------------ observations
\* a resolution: parameter j of the Get / Invoke call logged at position i
Resolutions ==
  {r \in (1..Len(log)) \X (1..MaxInvokeArgs) :
     log[r[1]].op # "Build" /\ r[2] <= Len(log[r[1]].vals)}

ResType(r) == log[r[1]].types[r[2]]
ResVal(r) == log[r[1]].vals[r[2]]
ResCon(r) == log[r[1]].con

HasLifetime(t, l) == t \in DOMAIN lifetimes /\ lifetimes[t] = l

\* number of Build calls logged before position i
Epoch(i) == Cardinality({k \in 1..(i - 1) : log[k].op = "Build"})

Instances == 1..Len(heap)

\* the container whose constructor call made instance h
MadeOn(h) == heap[h].con

\* the type of parameter k of the constructor that made instance h
ParamType(h, k) == constructors[heap[h].type].argTypes[k]

\* the instances that were arguments of the constructor call that made h
Injected(h) == {k \in 1..Len(heap[h].args) : ParamType(h, k) # contextParamsType}

\* a container returned by Scoped()
ByScoped(c) == containers[c].via = "Scoped"

\* what Get(t) on container c returns in this state
GetReturns(c, t) == getValue(c, t, scopedCaches, heap).val

\* the position in log of the latest Build call (0 if there is none)
LastBuild ==
  IF NumBuilds = 0 THEN 0
  ELSE CHOOSE i \in 1..Len(log) :
         log[i].op = "Build" /\ \A k \in (i + 1)..Len(log) : log[k].op # "Build"

\* the instances of type t whose constructor ran during call i
MadeIn(i, t) == {h \in Instances : heap[h].type = t /\ heap[h].call = i}

\* the scopedCache a container refers to: containers of one request share it
RequestOf(c) == containers[c].scopedCache

\* --------------------------------------------------------------- claims
\* C1: after a successful Build, with no later Build or Register, every Get
\* and every Invoke parameter of a Singleton type yields one and the same
\* instance, on the root and on every derived container.
C1_SingletonIdentical ==
  \A r1 \in Resolutions : \A r2 \in Resolutions :
    (/\ ResType(r1) = ResType(r2)
     /\ HasLifetime(ResType(r1), Singleton)
     /\ log[r1[1]].ready /\ log[r2[1]].ready
     /\ Epoch(r1[1]) = Epoch(r2[1]))
    => ResVal(r1) = ResVal(r2)

\* a Singleton resolved on the root and, in another call, on a container
\* reached through Scoped() and then WithContext()
C1_Witness ==
  \E r1 \in Resolutions : \E r2 \in Resolutions :
    /\ r1[1] # r2[1]
    /\ ResType(r1) = ResType(r2)
    /\ HasLifetime(ResType(r1), Singleton)
    /\ ResCon(r1) = 1
    /\ containers[ResCon(r2)].via = "WithContext"
    /\ ByScoped(containers[ResCon(r2)].parent)
    /\ ResVal(r1) = ResVal(r2)

\* C2: during one successful Build the constructor of every Singleton type
\* runs exactly once, whatever the order in which Build visits the registry,
\* and no later Get or Invoke runs it again.
C2_SingletonConstructedOnce ==
  (LastBuild # 0 /\ log[LastBuild].err = "nil") =>
    \A t \in DOMAIN singletonsCache :
      /\ Cardinality(MadeIn(LastBuild, t)) = 1
      /\ \A h \in Instances :
           (heap[h].type = t /\ heap[h].call > LastBuild) => FALSE

\* C3: after a successful Build every constructor argument of a Singleton
\* type is the instance Get of that type returns, on every container.
C3_SingletonArgumentIsTheSingleton ==
  ready =>
    \A g \in Instances : \A k \in Injected(g) :
      (heap[g].call >= LastBuild /\ HasLifetime(ParamType(g, k), Singleton)) =>
        \A c \in Cons : heap[g].args[k] = GetReturns(c, ParamType(g, k))

\* C4: on a container returned by Scoped(), any two resolutions of the same
\* Scoped type return the identical instance: the first one constructs it
\* and stores it in the scopedCache, the later ones return the stored one.
C4_ScopedIdenticalInRequest ==
  \A r1 \in Resolutions :
    (ByScoped(ResCon(r1)) /\ HasLifetime(ResType(r1), Scoped)) =>
      /\ ResType(r1) \in DOMAIN ScopedCacheOf(scopedCaches, ResCon(r1))
      /\ ScopedCacheOf(scopedCaches, ResCon(r1))[ResType(r1)] = ResVal(r1)
      /\ heap[ResVal(r1)].type = ResType(r1)
      /\ \A r2 \in Resolutions :
           (ResCon(r2) = ResCon(r1) /\ ResType(r2) = ResType(r1)) =>
             /\ ResVal(r2) = ResVal(r1)
             /\ heap[ResVal(r1)].call <= r2[1]

\* a Scoped type resolved in two calls on one container returned by Scoped()
C4_Witness ==
  \E r1 \in Resolutions : \E r2 \in Resolutions :
    /\ r1[1] < r2[1]
    /\ ResCon(r1) = ResCon(r2)
    /\ ByScoped(ResCon(r1))
    /\ ResType(r1) = ResType(r2)
    /\ HasLifetime(ResType(r1), Scoped)
    /\ heap[ResVal(r1)].call = r1[1]
    /\ ResVal(r1) = ResVal(r2)

\* C5: over the Get / Invoke calls on one container returned by Scoped() the
\* constructor of a Scoped type runs at most once, and the instance injected
\* into a constructor that requires the type is the one Get / Invoke returns
\* on that container, in whatever order the types are resolved.
C5_ScopedOncePerRequest ==
  \A c \in Cons : \A t \in DOMAIN lifetimes :
    (ByScoped(c) /\ lifetimes[t] = Scoped) =>
      /\ Cardinality({h \in Instances : /\ heap[h].type = t
                                        /\ MadeOn(h) = c
                                        /\ log[heap[h].call].op # "Build"}) <= 1
      /\ \A g \in Instances : \A k \in Injected(g) : \A r \in Resolutions :
           (/\ MadeOn(g) = c /\ log[heap[g].call].op # "Build"
            /\ ParamType(g, k) = t /\ ResCon(r) = c /\ ResType(r) = t)
             => heap[g].args[k] = ResVal(r)

\* C6: every Scoped() call returns a container with a scopedCache of its
\* own that holds nothing but what was resolved through it; an instance of a
\* Scoped or Transient type constructed through one request container is
\* never returned by, nor injected into a constructor run on, a container of
\* another request; siblings resolving one Scoped type get distinct instances.
C6_RequestsIsolated ==
  /\ \A c \in Cons : ByScoped(c) =>
       /\ RequestOf(c) # nilCache
       /\ \A d \in Cons : (ByScoped(d) /\ d # c) => RequestOf(d) # RequestOf(c)
  /\ \A x \in 1..Len(scopedCaches) : \A t \in DOMAIN scopedCaches[x] :
       RequestOf(MadeOn(scopedCaches[x][t])) = x
  /\ \A h \in Instances :
       (/\ RequestOf(MadeOn(h)) # nilCache
        /\ (HasLifetime(heap[h].type, Scoped) \/ HasLifetime(heap[h].type, Transient)))
       => /\ \A r \in Resolutions :
               ResVal(r) = h => RequestOf(ResCon(r)) \in {nilCache, RequestOf(MadeOn(h))}
          /\ \A g \in Instances : \A k \in Injected(g) :
               heap[g].args[k] = h =>
                 RequestOf(MadeOn(g)) \in {nilCache, RequestOf(MadeOn(h))}
  /\ \A r1 \in Resolutions : \A r2 \in Resolutions :
       (/\ ByScoped(ResCon(r1)) /\ ByScoped(ResCon(r2))
        /\ ResCon(r1) # ResCon(r2)
        /\ ResType(r1) = ResType(r2)
        /\ HasLifetime(ResType(r1), Scoped))
       => ResVal(r1) # ResVal(r2)

\* two containers returned by Scoped() on the same parent have each
\* resolved the same Scoped type
C6_Witness ==
  \E r1 \in Resolutions : \E r2 \in Resolutions :
    /\ ByScoped(ResCon(r1)) /\ ByScoped(ResCon(r2))
    /\ ResCon(r1) # ResCon(r2)
    /\ containers[ResCon(r1)].parent = containers[ResCon(r2)].parent
    /\ ResType(r1) = ResType(r2)
    /\ HasLifetime(ResType(r1), Scoped)
    /\ ResVal(r1) # ResVal(r2)

\* C7: on the root container a Scoped type is never cached: every resolution
\* runs the constructor again and returns a new instance, and the root's
\* scopedCache stays absent.
C7_RootNeverCachesScoped ==
  /\ containers[1].scopedCache = nilCache
  /\ \A r \in Resolutions :
       (ResCon(r) = 1 /\ HasLifetime(ResType(r), Scoped)) =>
         /\ heap[ResVal(r)].type = ResType(r)
         /\ heap[ResVal(r)].call = r[1]
         /\ \A r2 \in Resolutions : r2 # r => ResVal(r2) # ResVal(r)

\* a Scoped type resolved on the root in two calls
C7_Witness ==
  \E r1 \in Resolutions : \E r2 \in Resolutions :
    /\ r1[1] < r2[1]
    /\ ResCon(r1) = 1 /\ ResCon(r2) = 1
    /\ ResType(r1) = ResType(r2)
    /\ HasLifetime(ResType(r1), Scoped)
    /\ ResVal(r1) # ResVal(r2)

\* C8: any two top-level resolutions of a Transient type on one container
\* return distinct, freshly constructed instances, on the root and on
\* request containers, whatever was resolved on the container before.
C8_TransientFreshAtTopLevel ==
  \A r \in Resolutions :
    HasLifetime(ResType(r), Transient) =>
      /\ heap[ResVal(r)].type = ResType(r)
      /\ heap[ResVal(r)].call = r[1]
      /\ \A r2 \in Resolutions : r2 # r => ResVal(r2) # ResVal(r)

\* a Transient type resolved in two calls on one container returned by
\* Scoped(), whose scopedCache holds the instance of the first call
C8_Witness ==
  \E r1 \in Resolutions : \E r2 \in Resolutions :
    /\ r1[1] < r2[1]
    /\ ResCon(r1) = ResCon(r2)
    /\ ByScoped(ResCon(r1))
    /\ ResType(r1) = ResType(r2)
    /\ HasLifetime(ResType(r1), Transient)
    /\ ResType(r1) \in DOMAIN ScopedCacheOf(scopedCaches, ResCon(r1))
    /\ ResVal(r1) # ResVal(r2)

\* C9: every Transient instance that a call returns or injects into a
\* constructor was constructed during that same call.
C9_TransientPerCall ==
  /\ \A r \in Resolutions :
       HasLifetime(ResType(r), Transient) => heap[ResVal(r)].call = r[1]
  /\ \A g \in Instances : \A k \in Injected(g) :
       HasLifetime(ParamType(g, k), Transient) =>
         heap[heap[g].args[k]].call = heap[g].call

\* the graph has an edge a -> b
Edge(d, a, b) == a \in DOMAIN d /\ b # nilType /\ b \in Range(d[a])

RECURSIVE Closure(_, _)

\* the types reachable from the set S along edges, S included
Closure(d, S) ==
  LET n == S \cup {b \in DOMAIN constructors : \E a \in S : Edge(d, a, b)}
  IN IF n = S THEN S ELSE Closure(d, n)

\* t lies on a directed cycle
OnCycle(d, t) ==
  t \in Closure(d, {b \in DOMAIN constructors : Edge(d, t, b)})

Acyclic(d) == \A t \in DOMAIN d : ~OnCycle(d, t)

\* every required type has a provider
FullyRegistered == \A t \in DOMAIN constructors : ~constructors[t].isNil

\* this step is a Build call
BuildStep == Len(log') = Len(log) + 1 /\ log'[Len(log')].op = "Build"

\* C10: when the dependency graph is acyclic and every required type has a
\* registration, Build returns nil, for every registration order, every
\* assignment of lifetimes and every iteration order of graph and registry.
C10_BuildSucceedsOnCompleteAcyclic ==
  [][(BuildStep /\ Acyclic(deps) /\ FullyRegistered)
       => (log'[Len(log')].err = "nil" /\ ready')]_vars

\* Build has returned nil on a graph in which c is reached from a both
\* directly and through b
C10_Witness ==
  /\ ready
  /\ LastBuild # 0
  /\ log[LastBuild].err = "nil"
  /\ \E a \in DOMAIN deps : \E b \in DOMAIN deps : \E c \in DOMAIN deps :
       /\ a # b /\ b # c /\ a # c
       /\ Edge(deps, a, b) /\ Edge(deps, a, c) /\ Edge(deps, b, c)

\* the result of the latest call logged
Last == log[Len(log)]

\* C11: when the dependency graph has a directed cycle, of any length, Build
\* returns the cyclic-dependency error, for every order in which the graph's
\* nodes are iterated.
C11_BuildFailsOnCycle ==
  [][(BuildStep /\ ~Acyclic(deps))
       => (log'[Len(log')].err = "cyclic dependency" /\ ~ready')]_vars

\* Build has reported a cycle on a graph whose only cycle runs through
\* three types
C11_Witness ==
  /\ LastBuild # 0
  /\ log[LastBuild].err = "cyclic dependency"
  /\ \E a \in DOMAIN deps : \E b \in DOMAIN deps : \E c \in DOMAIN deps :
       /\ a # b /\ b # c /\ a # c
       /\ Edge(deps, a, b) /\ Edge(deps, b, c) /\ Edge(deps, c, a)
       /\ ~Edge(deps, a, a) /\ ~Edge(deps, b, b) /\ ~Edge(deps, c, c)
       /\ ~Edge(deps, b, a) /\ ~Edge(deps, c, b) /\ ~Edge(deps, a, c)

\* the required types that have no provider
Missing == {t \in DOMAIN constructors : constructors[t].isNil}

\* C12: when the graph is acyclic and some required type has no
\* registration, Build returns an error that reports every such type as not
\* registered, whatever the lifetimes of the types that require it.
C12_BuildReportsMissing ==
  [][(BuildStep /\ Acyclic(deps) /\ ~FullyRegistered)
       => (/\ log'[Len(log')].err = "was not registered"
           /\ Missing \subseteq Range(log'[Len(log')].errs))]_vars

\* this step is a Register call: Build, Get and Invoke append to log
RegisterStep == log' = log /\ containers' = containers

\* the registration of t is the same before and after this step
SameRegistration(t) ==
  /\ t \in DOMAIN deps' /\ deps'[t] = deps[t]
  /\ t \in DOMAIN constructors' /\ constructors'[t] = constructors[t]
  /\ t \in DOMAIN lifetimes' /\ lifetimes'[t] = lifetimes[t]

\* the constructor that made instance h took the parameters registered for
\* its type
MadeByRegistered(h) ==
  Len(heap[h].args) = Len(constructors[heap[h].type].argTypes)

\* C13: a Register call for a type that has a registration returns the
\* already-registered error naming that type and changes neither graph,
\* registry nor lifetime map; a Register call that succeeds adds a type that
\* had no registration and leaves every existing registration as it was, so
\* every resolution uses the constructor and lifetime registered first.
C13_DoubleRegisterRejected ==
  [][RegisterStep =>
       /\ \A t \in DOMAIN deps : SameRegistration(t)
       /\ registerRet'.err = "already registered" =>
            (registerRet'.t \in DOMAIN deps /\ UNCHANGED family)
       /\ (registerRet'.err = "nil" /\ ~UNCHANGED vars) =>
            Cardinality(DOMAIN deps' \ DOMAIN deps) = 1
       /\ \A h \in 1..Len(heap') : MadeByRegistered(h)']_vars

\* a second Register for a type was rejected and Get returns an instance of
\* that type
C13_Witness ==
  /\ registerRet.err = "already registered"
  /\ Len(log) > 0
  /\ Last.op = "Get" /\ Last.err = "nil"
  /\ Last.types[1] = registerRet.t

\* this step is a Get or Invoke call
CallStep == Len(log') = Len(log) + 1 /\ log'[Len(log')].op # "Build"

\* t has a provider
Provided(t) == t \in DOMAIN constructors /\ ~constructors[t].isNil

\* the positions of a parameter list whose type has no provider
Unprovided(types) == {j \in 1..Len(types) : ~Provided(types[j])}

\* the least position of a non-empty set of positions
First(P) == CHOOSE j \in P : \A k \in P : j <= k

\* C14: a Get or Invoke call whose parameter T has no provider, whether T is
\* unknown to the container or is only required by a registered provider,
\* returns the not-registered error naming T once the parameters before it
\* have been resolved.
C14_UnregisteredNotRegistered ==
  [][(CallStep /\ Unprovided(log'[Len(log')].types) # {}) =>
       LET e == log'[Len(log')]
           j == First(Unprovided(e.types))
       IN Len(e.vals) = j - 1 =>
            (e.err = "was not registered" /\ e.t = e.types[j])]_vars

\* C18: a Get or Invoke call made before any Build call returns the
\* must-build-container error and constructs nothing, also when every type
\* it asks for is registered.
C18_MustBuildFirst ==
  \A i \in 1..Len(log) :
    (/\ log[i].op # "Build"
     /\ Epoch(i) = 0
     /\ \A j \in 1..Len(log[i].types) : Provided(log[i].types[j]))
    => (/\ log[i].err = "must build container"
        /\ log[i].vals = <<>>
        /\ \A h \in Instances : heap[h].call # i)

\* C19: no Get or Invoke call returns the unknown-lifetime error.
C19_NoUnknownLifetime ==
  \A i \in 1..Len(log) : log[i].op # "Build" => log[i].err # "unknown lifetime"

\* C20: every Get and Invoke call returns, with its instances or with an
\* error: none ends in a panic and none recurses until the stack overflows.
C20_CallsReturn ==
  /\ \A i \in 1..Len(log) :
       log[i].op # "Build" => log[i].err \notin {"panic", "overflow"}
  /\ (Len(log) > 0 /\ Last.op # "Build") => ~crashed

\* this step is a WithContext call
WithContextStep ==
  /\ Len(containers') = Len(containers) + 1
  /\ containers'[Len(containers')].via = "WithContext"

\* C15: no step changes the context map of an existing container, and the
\* container a WithContext(k, v) call returns holds the source's map with k
\* set to v: the source's other keys with their values, and k with v also
\* when the source held k already.
C15_WithContextCopies ==
  [][/\ \A c \in Cons :
          containers'[c].contextParams = containers[c].contextParams
     /\ WithContextStep =>
          LET n == containers'[Len(containers')]
              src == containers[n.parent].contextParams
          IN /\ DOMAIN n.contextParams = DOMAIN src \cup {n.key}
             /\ n.contextParams[n.key] = n.value
             /\ \A k \in DOMAIN src \ {n.key} : n.contextParams[k] = src[k]
    ]_vars

\* a chain of two WithContext calls with different keys: the last container
\* holds both keys, its source one, the root none
C15_Witness ==
  \E c \in Cons :
    /\ containers[c].via = "WithContext"
    /\ containers[containers[c].parent].via = "WithContext"
    /\ containers[containers[c].parent].parent = 1
    /\ containers[c].key # containers[containers[c].parent].key
    /\ Cardinality(DOMAIN containers[c].contextParams) = 2
    /\ Cardinality(DOMAIN containers[containers[c].parent].contextParams) = 1
    /\ GetValue(containers[c].contextParams, containers[containers[c].parent].key)
         = containers[containers[c].parent].value
    /\ DOMAIN containers[1].contextParams = {}

\* the context map handed to the constructor call that made instance h
CtxSeen(h) == containers[MadeOn(h)].contextParams

\* the constructor of t takes ContextParams
TakesContext(t) ==
  Provided(t) /\ contextParamsType \in Range(constructors[t].argTypes)

\* the resolutions on a container WithContext returned, of a type whose
\* constructor takes ContextParams
OnContextView ==
  {r \in Resolutions :
     containers[ResCon(r)].via = "WithContext" /\ TakesContext(ResType(r))}

\* the instance of resolution r was constructed with a context map in which
\* the key of r's container maps to its value
SawContextOf(r) ==
  GetValue(CtxSeen(ResVal(r)), containers[ResCon(r)].key)
    = containers[ResCon(r)].value

\* C16 as stated: on the container c.WithContext(k, v) returns, every
\* instance a call returns for a type whose constructor takes ContextParams
\* was constructed with k mapped to v, for a type of any lifetime.
C16_ContextSeenAnyLifetime == \A r \in OnContextView : SawContextOf(r)

\* C16 amended: the same for a type of Scoped or Transient lifetime,
\* whatever was resolved or cached on c before.
C16_ContextSeenUnlessSingleton ==
  \A r \in OnContextView :
    (HasLifetime(ResType(r), Scoped) \/ HasLifetime(ResType(r), Transient))
      => SawContextOf(r)

\* a Scoped type whose constructor takes ContextParams is cached on a
\* request container c, and a later Get on c.WithContext(k, v) returned
\* another instance, constructed with k mapped to v
C16_Witness ==
  \E r \in OnContextView :
    LET c == containers[ResCon(r)].parent
    IN /\ ByScoped(c)
       /\ HasLifetime(ResType(r), Scoped)
       /\ ResType(r) \in DOMAIN ScopedCacheOf(scopedCaches, c)
       /\ heap[ScopedCacheOf(scopedCaches, c)[ResType(r)]].call < r[1]
       /\ ScopedCacheOf(scopedCaches, c)[ResType(r)] # ResVal(r)
       /\ SawContextOf(r)

RECURSIVE RegisterAll(_, _, _)

\* graph, registry and lifetime map after the present registrations have
\* been made, one successful Register call each, in the order given, from
\* position i on; g is [deps, constructors, lifetimes]
RegisterAll(order, i, g) ==
  IF i > Len(order) THEN g
  ELSE LET t == order[i]
           a == addArgs([deps |-> addDependency(g.deps, t, nilType),
                         constructors |-> g.constructors],
                        t, constructors[t].argTypes, 1)
       IN RegisterAll(order, i + 1,
            [deps |-> a.deps,
             constructors |-> Put(a.constructors, t,
                                  innerConstructor(constructors[t].argTypes)),
             lifetimes |-> Put(g.lifetimes, t, lifetimes[t])])

\* C17: graph, registry and lifetime map are those that the registrations
\* made so far produce in any order whatever, and every registered type has
\* its constructor, not the placeholder an earlier dependent left for it.
\* Build and resolution read nothing else of the registrations.
C17_RegistrationOrderIrrelevant ==
  /\ \A t \in DOMAIN deps : Provided(t) /\ t \in DOMAIN lifetimes
  /\ \A order \in Perms(DOMAIN deps) :
       RegisterAll(order, 1, [deps |-> EmptyMap, constructors |-> EmptyMap,
                              lifetimes |-> EmptyMap])
         = [deps |-> deps, constructors |-> constructors, lifetimes |-> lifetimes]

\* Build has reported a type as not registered that a registered type
\* requires, and the type has been registered since: the dependent was
\* registered first and the placeholder has been replaced
C17_Witness ==
  /\ LastBuild # 0
  /\ \E t \in Range(log[LastBuild].errs) :
       /\ Provided(t)
       /\ \E b \in DOMAIN deps : b # t /\ Edge(deps, b, t)
       /\ \E u \in DOMAIN deps : u # t /\ Edge(deps, t, u)

\* the types reachable from t along at least one edge
Requires(t) == Closure(deps, {b \in DOMAIN constructors : Edge(deps, t, b)})

\* C21: a Get or Invoke call whose first parameter is a registered type that
\* requires, directly or through other types, a type without a provider
\* returns the not-registered error naming such a type.
C21_NestedMissingNotRegistered ==
  [][(/\ CallStep
      /\ Provided(log'[Len(log')].types[1])
      /\ \E m \in Requires(log'[Len(log')].types[1]) : ~Provided(m))
     => (/\ log'[Len(log')].err = "was not registered"
         /\ log'[Len(log')].t \in Requires(log'[Len(log')].types[1])
         /\ ~Provided(log'[Len(log')].t))]_vars

\* C22: a Build call that returns the not-registered report has run no
\* constructor and has left singletonsCache as it was.
C22_NoSingletonBeforeValidation ==
  [][(BuildStep /\ log'[Len(log')].err = "was not registered")
       => (heap' = heap /\ singletonsCache' = singletonsCache)]_vars

\* C23: when the graph has a cycle, Build returns the cyclic-dependency
\* error, reports no missing registration, runs no constructor and leaves
\* singletonsCache as it was.
C23_CycleFailsFast ==
  [][(BuildStep /\ ~Acyclic(deps))
       => (/\ log'[Len(log')].err = "cyclic dependency"
           /\ log'[Len(log')].errs = <<>>
           /\ heap' = heap
           /\ singletonsCache' = singletonsCache
           /\ ~crashed')]_vars

\* Build has reported a cycle between two Singleton types while a third
\* type that one of them requires has no provider
C23_Witness ==
  /\ LastBuild # 0
  /\ log[LastBuild].err = "cyclic dependency"
  /\ heap = <<>>
  /\ \E a \in DOMAIN deps : \E b \in DOMAIN deps :
       /\ a # b
       /\ Edge(deps, a, b) /\ Edge(deps, b, a)
       /\ HasLifetime(a, Singleton) /\ HasLifetime(b, Singleton)
       /\ \E m \in Missing : Edge(deps, a, m)

\* C24: the not-registered report of a Build call names every required type
\* that has no provider exactly once and names no other type, for every
\* order in which the registry is iterated.
C24_ReportAggregatesMissing ==
  [][(BuildStep /\ log'[Len(log')].err = "was not registered")
       => (/\ Range(log'[Len(log')].errs) = Missing
           /\ Len(log'[Len(log')].errs) = Cardinality(Missing))]_vars

\* Build has reported two types as not registered, both required by one
\* registered type
C24_Witness ==
  /\ LastBuild # 0
  /\ log[LastBuild].err = "was not registered"
  /\ Len(log[LastBuild].errs) = 2
  /\ \E a \in DOMAIN deps : \A m \in Range(log[LastBuild].errs) :
       Edge(deps, a, m) /\ ~Provided(m)

\* C29: the type the cyclic-dependency error reports as found by the DFS
\* lies on a directed cycle of the graph, for every graph and every node the
\* check starts from.
C29_ReportedTypeOnCycle ==
  [][(BuildStep /\ log'[Len(log')].err = "cyclic dependency")
       => OnCycle(deps, log'[Len(log')].dep)]_vars

\* the call of this step asks first for a Singleton type that
\* singletonsCache does not hold, and returns without error
UncachedSingletonStep ==
  /\ CallStep
  /\ log'[Len(log')].err = "nil"
  /\ HasLifetime(log'[Len(log')].types[1], Singleton)
  /\ log'[Len(log')].types[1] \notin DOMAIN singletonsCache

\* instance v is the value of no cache after this step
InNoCache(v) ==
  /\ \A t \in DOMAIN singletonsCache' : singletonsCache'[t] # v
  /\ \A x \in 1..Len(scopedCaches') : \A t \in DOMAIN scopedCaches'[x] :
       scopedCaches'[x][t] # v

TransientParams(c) ==
  {p \in Instances \X (1..MaxArgs) :
     /\ MadeOn(p[1]) = c
     /\ log[heap[p[1]].call].op # "Build"
     /\ p[2] \in Injected(p[1])
     /\ HasLifetime(ParamType(p[1], p[2]), Transient)}

\* the instance that was injected as parameter p
ArgOf(p) == heap[p[1]].args[p[2]]

\* every top-level resolution of a Transient type is a fresh instance
TransientTopLevelFresh ==
  \A r \in Resolutions :
    HasLifetime(ResType(r), Transient) =>
      /\ heap[ResVal(r)].call = r[1]
      /\ \A r2 \in Resolutions : r2 # r => ResVal(r2) # ResVal(r)

PriorRes(c, t, i) ==
  {r \in Resolutions : ResCon(r) = c /\ ResType(r) = t /\ r[1] < i}

\* the latest of a non-empty set of resolutions
LatestRes(P) ==
  CHOOSE r \in P : \A q \in P : q[1] < r[1] \/ (q[1] = r[1] /\ q[2] <= r[2])

\* the instances call i handed out
TopVals(i) == Range(log[i].vals)

C27_ScopeMainOrRequest ==
  \A c \in Cons :
    /\ containers[c].scope \in {main, request}
    /\ containers[c].via = "NewContainer" => containers[c].scope = main
    /\ containers[c].via = "Scoped" => containers[c].scope = request
    /\ containers[c].via = "WithContext" =>
         containers[c].scope = containers[containers[c].parent].scope

\* container d is c.Scoped().WithContext(k, v) or c.WithContext(k, v).Scoped()
\* of the root c
ScopedWithContext(d) ==
  /\ containers[d].parent # 0
  /\ containers[containers[d].parent].parent = 1
  /\ {containers[d].via, containers[containers[d].parent].via}
       = {"Scoped", "WithContext"}

\* the key and value of the WithContext call on the way to d
ContextCallOf(d) ==
  IF containers[d].via = "WithContext" THEN d ELSE containers[d].parent

\* C28: on c.Scoped().WithContext(k, v) and on c.WithContext(k, v).Scoped()
\* alike, k maps to v and any two Gets of one Scoped type return the same
\* instance.
C28_ScopedWithContextCommute ==
  \A d \in Cons : ScopedWithContext(d) =>
    /\ GetValue(containers[d].contextParams, containers[ContextCallOf(d)].key)
         = containers[ContextCallOf(d)].value
    /\ \A r1 \in Resolutions : \A r2 \in Resolutions :
         (/\ ResCon(r1) = d /\ ResCon(r2) = d
          /\ ResType(r1) = ResType(r2)
          /\ HasLifetime(ResType(r1), Scoped))
         => ResVal(r1) = ResVal(r2)

\* C30: a Get or Invoke call changes neither graph, registry, lifetime map,
\* singletonsCache nor any container, its context map included; on a
\* container in request scope it changes no scopedCache but that container's
\* own, and on any other container it changes no scopedCache at all.
C30_CallsKeepFamilyState ==
  [][CallStep =>
       LET c == log'[Len(log')].con
       IN /\ UNCHANGED family
          /\ containers' = containers
          /\ ready' = ready /\ registerRet' = registerRet
          /\ Len(scopedCaches') = Len(scopedCaches)
          /\ \A x \in 1..Len(scopedCaches) :
               scopedCaches'[x] # scopedCaches[x] =>
                 (containers[c].scope = request /\ containers[c].scopedCache = x)
    ]_vars

\* a call on a container returned by Scoped() has stored an instance in its
\* scopedCache, a later call on a WithContext view of that container has
\* constructed an instance of the same type, and the cache still holds the
\* first
C30_Witness ==
  \E r1 \in Resolutions : \E r2 \in Resolutions :
    /\ r1[1] < r2[1]
    /\ ByScoped(ResCon(r1))
    /\ containers[ResCon(r2)].via = "WithContext"
    /\ containers[ResCon(r2)].parent = ResCon(r1)
    /\ ResType(r1) = ResType(r2)
    /\ heap[ResVal(r2)].call = r2[1]
    /\ ScopedCacheOf(scopedCaches, ResCon(r1))[ResType(r1)] = ResVal(r1)

C32_SingletonCacheHoldsSingletons ==
  \A t \in DOMAIN singletonsCache :
    /\ HasLifetime(t, Singleton)
    /\ heap[singletonsCache[t]].type = t

\* singletonsCache holds an instance, and a type that is not a Singleton has
\* been resolved on a container returned by Scoped() and is in its scopedCache
C32_Witness ==
  /\ DOMAIN singletonsCache # {}
  /\ \E r \in Resolutions :
       /\ ~HasLifetime(ResType(r), Singleton)
       /\ ByScoped(ResCon(r))
       /\ ResType(r) \in DOMAIN ScopedCacheOf(scopedCaches, ResCon(r))

\* C36: a container in request scope has a scopedCache, a container without
\* a scopedCache is not in request scope, and no Get or Invoke has panicked
\* on a write to a nil map.
C36_RequestHasScopedCache ==
  /\ \A c \in Cons :
       /\ containers[c].scope = request =>
            containers[c].scopedCache \in 1..Len(scopedCaches)
       /\ containers[c].scopedCache = nilCache => containers[c].scope # request
  /\ \A i \in 1..Len(log) : log[i].op # "Build" => log[i].err # "panic"

\* a call on a container in request scope has stored an instance in its
\* scopedCache, and a call on a container that has no scopedCache has
\* constructed an instance of a type that is not a Singleton
C36_Witness ==
  \E r1 \in Resolutions : \E r2 \in Resolutions :
    /\ containers[ResCon(r1)].scope = request
    /\ ResType(r1) \in DOMAIN ScopedCacheOf(scopedCaches, ResCon(r1))
    /\ containers[ResCon(r2)].scopedCache = nilCache
    /\ ~HasLifetime(ResType(r2), Singleton)
    /\ heap[ResVal(r2)].call = r2[1]

\* the parameter types of the registration of a, ContextParams left out
Params(a) == Range(constructors[a].argTypes) \ {contextParamsType}

\* the types the graph has an edge to from a
Targets(a) == {b \in Range(deps[a]) : b # nilType}

\* the graph nodes are the types that have a registration, and the edges of
\* each are its parameters other than ContextParams
EdgesAreParams ==
  /\ \A a \in DOMAIN deps : Provided(a) /\ Targets(a) = Params(a)
  /\ \A a \in DOMAIN constructors : Provided(a) => a \in DOMAIN deps

\* a Register call leaves every existing registration as it was and adds at
\* most one
OneRegistrationEach ==
  [][RegisterStep =>
       /\ \A t \in DOMAIN deps : SameRegistration(t)
       /\ Cardinality(DOMAIN deps' \ DOMAIN deps) <= 1
       /\ registerRet'.err # "nil" => UNCHANGED family]_vars

Started == {p \in Procs : threads[p].pc # "idle"}

\* goroutine p is between c.m.Lock() and c.m.Unlock()
InCritical(p) ==
  threads[p].pc \in {"check", "addNil", "args", "lifetime", "constructor", "unlock"}

\* goroutine p is between its first and its last write to the maps of the
\* family
InMutation(p) == threads[p].pc \in {"addNil", "args", "lifetime", "constructor"}

\* what one Register call that runs alone makes of graph, registry and
\* lifetime map g, and what it returns
RegisterAlone(g, provider, lifetime) ==
  IF ~provider.isFunc THEN [g |-> g, err |-> "errNotAFunction"]
  ELSE IF Len(provider.out) # 1
    THEN [g |-> g, err |-> "only 1 out parameter is allowed"]
  ELSE IF provider.out[1] \in DOMAIN g.deps
    THEN [g |-> g, err |-> "already registered"]
  ELSE LET a == addArgs([deps |-> addDependency(g.deps, provider.out[1], nilType),
                         constructors |-> g.constructors],
                        provider.out[1], provider.in, 1)
       IN [g |-> [deps |-> a.deps,
                  constructors |-> Put(a.constructors, provider.out[1],
                                       innerConstructor(provider.in)),
                  lifetimes |-> Put(g.lifetimes, provider.out[1], lifetime)],
           err |-> "nil"]

RECURSIVE SerialOutcome(_, _, _)

\* the calls of the goroutines made one after the other in the order given,
\* from position i on, return what the goroutines have returned and leave
\* graph, registry and lifetime map as they are now
SerialOutcome(order, i, g) ==
  IF i > Len(order)
    THEN g = [deps |-> deps, constructors |-> constructors,
              lifetimes |-> lifetimes]
    ELSE LET r == RegisterAlone(g, threads[order[i]].provider,
                                threads[order[i]].lifetime)
         IN /\ r.err = threads[order[i]].err
            /\ SerialOutcome(order, i + 1, r.g)

\* the goroutines whose provider is a func that returns type o alone
Producing(o) ==
  {p \in Started : threads[p].provider.isFunc /\ threads[p].provider.out = <<o>>}

\* C33: Register calls made concurrently on one container are serialized by
\* its mutex.  No two of them are between Lock and Unlock at the same time
\* and there is no data race.  When they have returned, of the calls that
\* produce one type exactly one has returned nil and the others the
\* already-registered error, and graph, registry and lifetime map are those
\* that the calls leave when they are made one after the other in some order.
C33_ConcurrentRegisterSerialized ==
  /\ \A p \in Procs : \A q \in Procs \ {p} :
       (InCritical(p) /\ InCritical(q)) => threads[p].con # threads[q].con
  /\ (\A p \in Started : \A q \in Started : threads[p].con = threads[q].con)
       => /\ ~crashed
          /\ (\A p \in Started : threads[p].pc = "done") =>
               /\ \E order \in Perms(Started) :
                    SerialOutcome(order, 1, [deps |-> EmptyMap,
                                             constructors |-> EmptyMap,
                                             lifetimes |-> EmptyMap])
               /\ \A o \in Types : Producing(o) # {} =>
                    /\ Cardinality({p \in Producing(o) :
                                      threads[p].err = "nil"}) = 1
                    /\ \A p \in Producing(o) :
                         threads[p].err \in {"nil", "already registered"}

\* two goroutines have called Register on one derived container with
\* providers of one type: the first is about to unlock the mutex, having
\* registered its provider, while the second waits for the mutex
C33_Witness ==
  \E p \in Procs : \E q \in Procs \ {p} :
    /\ threads[p].con = threads[q].con /\ threads[p].con # 1
    /\ threads[p].pc = "unlock" /\ threads[p].err = "nil"
    /\ threads[q].pc = "lock"
    /\ threads[p].provider.out = threads[q].provider.out
    /\ threads[p].provider # threads[q].provider

\* C34: Register calls are mutually exclusive across a family: no two
\* goroutines that call Register, on whichever containers of the family,
\* are at the same time between their first and their last write to the
\* graph, the registry and the lifetime map.
C34_RegisterExclusiveInFamily ==
  \A p \in Procs : \A q \in Procs \ {p} : ~(InMutation(p) /\ InMutation(q))

\* goroutines p and q have both called Get for Scoped type t on container c
\* in request scope, both have found scopedCache without t, and both have
\* returned
BothMissed(p, q) ==
  /\ p # q
  /\ threads[p].pc = "done" /\ threads[q].pc = "done"
  /\ threads[p].missed /\ threads[q].missed
  /\ threads[p].con = threads[q].con
  /\ containers[threads[p].con].scope = request
  /\ threads[p].t = threads[q].t
  /\ HasLifetime(threads[p].t, Scoped)

\* C35: nothing guards resolution against double execution: when two
\* goroutines resolve one Scoped type on one container in request scope and
\* the second looks into scopedCache before the first has stored its
\* instance, the constructor runs twice and the two callers receive
\* different instances.
C35_ScopedConstructedTwice ==
  \A p \in Procs : \A q \in Procs :
    BothMissed(p, q) =>
      /\ threads[p].err = "nil" /\ threads[q].err = "nil"
      /\ threads[p].val # threads[q].val
      /\ heap[threads[p].val].type = threads[p].t
      /\ heap[threads[q].val].type = threads[q].t
      /\ heap[threads[p].val].con = threads[p].con
      /\ heap[threads[q].val].con = threads[q].con

\* two goroutines have returned from Get for one Scoped type on one
\* container in request scope with different instances, and the process
\* is alive
C35_Witness ==
  /\ ~crashed
  /\ \E p \in Procs : \E q \in Procs :
       /\ BothMissed(p, q)
       /\ threads[p].val # threads[q].val
       /\ threads[p].val # 0 /\ threads[q].val # 0

====
